---- MODULE Spec2Model ----
(***************************************************************************)
(* Model of the slot-filling dialogue manager of main.py: the              *)
(* GeminiAssistant object, its conversation files, the global action log   *)
(* and the two UI handlers that drive it (respond and new_chat).           *)
(*                                                                         *)
(* Text is a sequence of one-character strings, so that lower(), strip()   *)
(* and the `word in text` tests are computed as Python computes them.      *)
(* A dict is a function whose domain is its key set.                       *)
(***************************************************************************)
EXTENDS Integers, Sequences, FiniteSets, TLC

VARIABLES
    api_key,             \* GEMINI_API_KEY is set (TRUE) or absent (FALSE)
    session_id,          \* self.session_id: the n-th identifier drawn from uuid4
    conversation_files,  \* conversations/conversations_<id>.json, by session id
    actions_file,        \* conversations/actions.json
    outbox,              \* the files written under outbox/
    conversation_state,  \* self.conversation_state
    turns,               \* process_message calls so far
    env,                 \* what the user, the backend and the disk may do in this run
    last,                \* what the latest handler call was given and returned
    actor,               \* the browser client whose event the latest handler call served
    inflight,            \* per client: the execute_action call that has read actions.json
                         \* and not yet written it
    call                 \* a call of one of the pure methods: its arguments and result

vars == <<api_key, session_id, conversation_files, actions_file, outbox,
          conversation_state, turns, env, last, actor, inflight, call>>

-----------------------------------------------------------------------------
(* Bounds of the model *)

\* process_message calls in one run of the wide environment
MaxTurns == 2

\* process_message calls in one run of the deep environment
MaxDeepTurns == 3

\* new_chat clicks in one run
MaxResets == 1

\* fields one backend reply can fill in the wide environment
MaxExtracted == 4

\* fields one backend reply can fill in the deep environment
MaxDeepExtracted == 2

\* fields one backend reply can fill in the long environment
MaxLongExtracted == 1

\* process_message calls in one run of the long environment
MaxLongTurns == 7

\* process_message calls in one run of the slot-filling environment
MaxSlotTurns == 6

\* process_message calls in one run of the slot-filling environment whose file
\* operations may fail
MaxFaultySlotTurns == 3

\* fields one backend reply can fill in the slot-filling environment
MaxSlotExtracted == 1

\* process_message calls in one run of the shared environment
MaxSharedTurns == 4

\* fields one backend reply can fill in the shared environment
MaxSharedExtracted == 2

\* turns when a handler call can be suspended in its classification request
MaxRaceTurns == 3

\* fields one backend reply can fill in that environment
MaxRaceExtracted == 1

-----------------------------------------------------------------------------
(* Python text operations *)

None == "None"

UpperCase ==
    <<"A","B","C","D","E","F","G","H","I","J","K","L","M",
      "N","O","P","Q","R","S","T","U","V","W","X","Y","Z">>

LowerCase ==
    <<"a","b","c","d","e","f","g","h","i","j","k","l","m",
      "n","o","p","q","r","s","t","u","v","w","x","y","z">>

ToLower ==
    [c \in {UpperCase[i] : i \in DOMAIN UpperCase} |->
        LowerCase[CHOOSE i \in DOMAIN UpperCase : UpperCase[i] = c]]

LowerChar(c) == IF c \in DOMAIN ToLower THEN ToLower[c] ELSE c

\* str.lower()
lower(s) == [i \in 1..Len(s) |-> LowerChar(s[i])]

IsSpace(c) == c \in {" ", "\t", "\n"}

\* str.strip()
strip(s) ==
    LET keep == {i \in 1..Len(s) : ~IsSpace(s[i])}
    IN  IF keep = {} THEN <<>>
        ELSE LET first == CHOOSE i \in keep : \A j \in keep : i <= j
                 final == CHOOSE i \in keep : \A j \in keep : j <= i
             IN  SubSeq(s, first, final)

\* word in text
Contains(text, word) ==
    \E i \in 1..(Len(text) - Len(word) + 1) : SubSeq(text, i, i + Len(word) - 1) = word

\* any(word in text for word in words)
ContainsAny(text, words) == \E w \in words : Contains(text, w)

\* text.startswith(prefix)
StartsWith(text, prefix) ==
    Len(text) >= Len(prefix) /\ SubSeq(text, 1, Len(prefix)) = prefix

\* text.split(sep)[-1]: what follows the last occurrence of sep (all of text if none)
SplitLast(text, sep) ==
    LET at == {i \in 1..(Len(text) - Len(sep) + 1) : SubSeq(text, i, i + Len(sep) - 1) = sep}
    IN  IF at = {} THEN text
        ELSE LET i == CHOOSE k \in at : \A j \in at : j <= k
             IN  SubSeq(text, i + Len(sep), Len(text))

\* not value or not value.strip()
IsBlank(value) == value = <<>> \/ strip(value) = <<>>

-----------------------------------------------------------------------------
(* Dicts *)

EmptyDict == [k \in {} |-> <<>>]

\* d.get(k, default)
Get(d, k, default) == IF k \in DOMAIN d THEN d[k] ELSE default

\* merged = previous.copy(); merged.update(new)
Update(previous, new) ==
    [k \in DOMAIN previous \cup DOMAIN new |->
        IF k \in DOMAIN new THEN new[k] ELSE previous[k]]

-----------------------------------------------------------------------------
(* Field schema *)

MeetingFields == <<"title", "date", "time", "participants">>

EmailRequired == <<"recipient", "body">>

\* the keys the meeting reply parser and the meeting regexes can set
MeetingKeys == {"title", "date", "time", "participants"}

\* the keys the email reply parser can set
EmailKeys == {"recipient", "subject", "body"}

TaskIntents == {"schedule_meeting", "send_email"}

SchemaKeys(intent) ==
    IF intent = "schedule_meeting" THEN MeetingKeys
    ELSE IF intent = "send_email" THEN EmailKeys
    ELSE {}

\* Faulty variant of FieldMissing: a whitespace-only value counts as given
FieldMissingUnstripped(entities, k) == k \notin DOMAIN entities \/ entities[k] = <<>>

\* entities.get(k) is falsy or blank
FieldMissing(entities, k) == k \notin DOMAIN entities \/ IsBlank(entities[k])

get_missing_fields(intent, entities) ==
    IF intent = "schedule_meeting"
    THEN SelectSeq(MeetingFields, LAMBDA k : FieldMissing(entities, k))
    ELSE IF intent = "send_email"
    THEN SelectSeq(EmailRequired, LAMBDA k : FieldMissing(entities, k))
    ELSE <<>>

\* A response is the template used and the values rendered into it.
Response(kind, args) == [kind |-> kind, args |-> args]

\* Python's None where a response is expected
NoResponse == Response("None", <<>>)

get_next_missing_field_question(intent, missing_fields) ==
    IF missing_fields = <<>> THEN NoResponse
    ELSE IF intent = "schedule_meeting" /\ missing_fields[1] \in MeetingKeys
    THEN Response("ask", <<missing_fields[1]>>)
    ELSE IF intent = "send_email" /\ missing_fields[1] \in {"recipient", "body"}
    THEN Response("ask", <<missing_fields[1]>>)
    ELSE NoResponse

generate_confirmation(intent, entities) ==
    IF intent = "schedule_meeting"
    THEN LET title == Get(entities, "title", <<"M","e","e","t","i","n","g">>)
             date == Get(entities, "date", <<"u","n","s","p","e","c","i","f","i","e","d"," ","d","a","t","e">>)
             time == Get(entities, "time", <<"u","n","s","p","e","c","i","f","i","e","d"," ","t","i","m","e">>)
             participants == Get(entities, "participants", <<>>)
         IN  IF participants # <<>>
             THEN Response("confirm_meeting_with", <<title, date, time, participants>>)
             ELSE Response("confirm_meeting", <<title, date, time>>)
    ELSE IF intent = "send_email"
    THEN LET recipient == Get(entities, "recipient", <<"u","n","s","p","e","c","i","f","i","e","d"," ","r","e","c","i","p","i","e","n","t">>)
             body == Get(entities, "body", <<"u","n","s","p","e","c","i","f","i","e","d"," ","m","e","s","s","a","g","e">>)
             subject == Get(entities, "subject", <<>>)
         IN  IF subject # <<>>
             THEN Response("confirm_email_subject", <<recipient, subject, body>>)
             ELSE Response("confirm_email", <<recipient, body>>)
    ELSE Response("confirm_generic", <<>>)

_handle_chitchat(message) ==
    IF ContainsAny(lower(message),
                   {<<"h","e","l","l","o">>, <<"h","i">>, <<"h","e","y">>, <<"g","o","o","d"," ","m","o","r","n","i","n","g">>,
                    <<"g","o","o","d"," ","a","f","t","e","r","n","o","o","n">>, <<"g","o","o","d"," ","e","v","e","n","i","n","g">>})
    THEN Response("greeting", <<>>)
    ELSE Response("offer_help", <<>>)

CancelResponse == Response("cancelled", <<>>)

-----------------------------------------------------------------------------
(* Confirmation tokens *)

AffirmativeTokens ==
    {<<"y","e","s">>, <<"y">>, <<"c","o","n","f","i","r","m">>, <<"o","k">>, <<"o","k","a","y">>, <<"s","u","r","e">>}

NegativeTokens ==
    {<<"n","o">>, <<"n">>, <<"c","a","n","c","e","l">>, <<"n","e","v","e","r","m","i","n","d">>}

\* Faulty variants of the token tests: a token found anywhere in the message
IsAffirmativeLoose(message) == Contains(lower(message), <<"y","e","s">>)

IsNegativeLoose(message) == Contains(lower(message), <<"n","o">>)

\* message.lower().strip() in [...]
IsAffirmative(message) == strip(lower(message)) \in AffirmativeTokens

IsNegative(message) == strip(lower(message)) \in NegativeTokens

-----------------------------------------------------------------------------
(* The texts typed *)

\* The texts typed into the message box.
Messages ==
    {<<" ","Y","e","s"," ">>, <<"N","o">>, <<"n","o","t"," ","y","e","s">>, <<"b","o","o","k"," ","b">>, <<"s","e","n","d"," ","m","a","i","l">>}

\* The texts given to detect_intent_change and classify_intent when they are
\* studied on their own: no keyword, a greeting, a meeting keyword, an e-mail
\* keyword, and a keyword of detect_intent_change alone in capitals.
CallTexts ==
    {<<"n","o","t"," ","y","e","s">>, <<"h","e","l","l","o">>, <<"b","o","o","k"," ","b">>, <<"s","e","n","d"," ","m","a","i","l">>, <<"C","A","L","L"," ","m","e">>}

\* The values of the field maps given to get_missing_fields when it is studied
\* on its own: a value, the empty string, a whitespace-only string
CallValues == {<<"a">>, <<>>, <<" ">>}

\* The date expressions given to _parse_date when it is studied on its own
CallDates ==
    {<<"m","o","n","d","a","y">>, <<" ","N","e","x","t"," ","M","o","n","d","a","y"," ">>, <<"m","o","n","d","a","y"," ","n","e","x","t"," ","w","e","e","k">>, <<"t","o","m","o","r","r","o","w">>}

-----------------------------------------------------------------------------
(* The language backend *)

\* What one requests.post gives: a reply text, or no usable reply (no key,
\* timeout, HTTP error, request error, no candidates).
Unavailable == [ok |-> FALSE, text |-> <<>>]

Reply(text) == [ok |-> TRUE, text |-> text]

\* The prompt of detect_intent_change (runs of blanks written as one blank).
DetectPrompt(user_input, current_intent) ==
    <<"\n","C","u","r","r","e","n","t"," ","t","a","s","k",":"," ">> \o current_intent \o <<"\n","U","s","e","r"," ","i","n","p","u","t",":"," ","\"">> \o user_input
    \o <<"\"","\n","\n","I","s"," ","t","h","e"," ","u","s","e","r"," ","t","r","y","i","n",
      "g"," ","t","o"," ","s","w","i","t","c","h"," ","t","o"," ","a"," ","d","i","f",
      "f","e","r","e","n","t"," ","t","a","s","k","?"," ","C","o","n","s","i","d","e",
      "r",":","\n","-"," ","I","f"," ","t","h","e","y"," ","w","e","r","e"," ","s","c",
      "h","e","d","u","l","i","n","g"," ","a"," ","m","e","e","t","i","n","g"," ","b",
      "u","t"," ","n","o","w"," ","w","a","n","t"," ","t","o"," ","s","e","n","d"," ",
      "a","n"," ","e","m","a","i","l","\n","-"," ","I","f"," ","t","h","e","y"," ","w",
      "e","r","e"," ","s","e","n","d","i","n","g"," ","a","n"," ","e","m","a","i","l",
      " ","b","u","t"," ","n","o","w"," ","w","a","n","t"," ","t","o"," ","s","c","h",
      "e","d","u","l","e"," ","a"," ","m","e","e","t","i","n","g","\n","-"," ","P","h",
      "r","a","s","e","s"," ","l","i","k","e"," ","\"","a","c","t","u","a","l","l","y",
      "\"",","," ","\"","i","n","s","t","e","a","d","\"",","," ","\"","n","o","\"",","," ",
      "\"","s","o","r","r","y","\"",","," ","\"","w","a","i","t","\"","\n","\n","A","n","s",
      "w","e","r"," ","o","n","l","y",":"," ","Y","E","S"," ","o","r"," ","N","O","\n">>

\* The prompt of classify_intent (runs of blanks written as one blank). The
\* history lines "User: ..." / "Assistant: ..." go where context stands.
ClassifyPrompt(user_input, context) ==
    <<"\n","C","l","a","s","s","i","f","y"," ","t","h","e"," ","f","o","l","l","o","w",
      "i","n","g"," ","u","s","e","r"," ","i","n","p","u","t"," ","i","n","t","o"," ",
      "o","n","e"," ","o","f"," ","t","h","e","s","e"," ","i","n","t","e","n","t","s",
      ":","\n","1","."," ","s","c","h","e","d","u","l","e","_","m","e","e","t","i","n",
      "g"," ","-"," ","u","s","e","r"," ","w","a","n","t","s"," ","t","o"," ","b","o",
      "o","k","/","s","c","h","e","d","u","l","e"," ","a"," ","m","e","e","t","i","n",
      "g","\n","2","."," ","s","e","n","d","_","e","m","a","i","l"," ","-"," ","u","s",
      "e","r"," ","w","a","n","t","s"," ","t","o"," ","s","e","n","d"," ","a","n"," ",
      "e","m","a","i","l","\n","3","."," ","c","h","i","t","c","h","a","t"," ","-"," ",
      "g","e","n","e","r","a","l"," ","c","o","n","v","e","r","s","a","t","i","o","n",
      ","," ","g","r","e","e","t","i","n","g","s",","," ","o","r"," ","o","t","h","e",
      "r"," ","t","o","p","i","c","s","\n","\n","C","o","n","s","i","d","e","r"," ","t",
      "h","e"," ","c","o","n","v","e","r","s","a","t","i","o","n"," ","c","o","n","t",
      "e","x","t"," ","t","o"," ","u","n","d","e","r","s","t","a","n","d"," ","i","f",
      " ","t","h","e"," ","u","s","e","r"," ","i","s"," ","p","r","o","v","i","d","i",
      "n","g"," ","m","i","s","s","i","n","g"," ","i","n","f","o","r","m","a","t","i",
      "o","n"," ","f","o","r"," ","a"," ","p","r","e","v","i","o","u","s"," ","r","e",
      "q","u","e","s","t",".","\n","A","l","s","o"," ","l","o","o","k"," ","f","o","r",
      " ","i","n","t","e","n","t"," ","s","w","i","t","c","h","i","n","g"," ","-"," ",
      "i","f"," ","t","h","e","y"," ","w","e","r","e"," ","d","o","i","n","g"," ","o",
      "n","e"," ","t","a","s","k"," ","b","u","t"," ","n","o","w"," ","w","a","n","t",
      " ","t","o"," ","d","o"," ","a","n","o","t","h","e","r",".","\n">>
    \o context \o <<"\n","\n","C","u","r","r","e","n","t"," ","u","s","e","r"," ","i","n","p","u","t",":"," ">> \o user_input
    \o <<"\n","\n","R","e","s","p","o","n","d"," ","w","i","t","h"," ","o","n","l","y"," ",
      "t","h","e"," ","i","n","t","e","n","t"," ","n","a","m","e"," ","(","s","c","h",
      "e","d","u","l","e","_","m","e","e","t","i","n","g",","," ","s","e","n","d","_",
      "e","m","a","i","l",","," ","o","r"," ","c","h","i","t","c","h","a","t",")",".",
      "\n">>

IntentText(intent) ==
    IF intent = "schedule_meeting" THEN <<"s","c","h","e","d","u","l","e","_","m","e","e","t","i","n","g">>
    ELSE IF intent = "send_email" THEN <<"s","e","n","d","_","e","m","a","i","l">>
    ELSE IF intent = "chitchat" THEN <<"c","h","i","t","c","h","a","t">>
    ELSE <<"N","o","n","e">>

FallbackMeetingWords == {<<"b","o","o","k">>, <<"s","c","h","e","d","u","l","e">>, <<"m","e","e","t","i","n","g">>, <<"a","p","p","o","i","n","t","m","e","n","t">>}

FallbackEmailWords == {<<"s","e","n","d">>, <<"e","m","a","i","l">>, <<"m","a","i","l">>, <<"m","e","s","s","a","g","e">>}

FallbackFor(prompt) ==
    LET user_input == IF Contains(prompt, <<"U","s","e","r"," ","i","n","p","u","t",":">>)
                      THEN strip(SplitLast(prompt, <<"U","s","e","r"," ","i","n","p","u","t",":">>))
                      ELSE prompt
        text == lower(user_input)
    IN  IF ContainsAny(text, FallbackMeetingWords) THEN <<"I","N","T","E","N","T",":"," ","s","c","h","e","d","u","l","e","_","m","e","e","t","i","n","g">>
        ELSE IF ContainsAny(text, FallbackEmailWords) THEN <<"I","N","T","E","N","T",":"," ","s","e","n","d","_","e","m","a","i","l">>
        ELSE <<"I","N","T","E","N","T",":"," ","c","h","i","t","c","h","a","t">>

\* every prompt call_gemini is given
Prompts ==
    {ClassifyPrompt(m, <<>>) : m \in Messages \cup CallTexts}
    \cup {DetectPrompt(m, IntentText(i)) :
             m \in Messages \cup CallTexts,
             i \in {"schedule_meeting", "send_email", "chitchat"}}

\* _fallback_response, computed once for each prompt the model builds
FallbackTable == [prompt \in Prompts |-> FallbackFor(prompt)]

_fallback_response(prompt) == FallbackTable[prompt]

\* Faulty variant of call_gemini: a failed request hands back the prompt
call_gemini_echo(prompt, reply) ==
    IF ~api_key THEN _fallback_response(prompt)
    ELSE IF reply.ok THEN strip(reply.text)
    ELSE prompt

call_gemini(prompt, reply) ==
    IF ~api_key THEN _fallback_response(prompt)
    ELSE IF reply.ok THEN strip(reply.text)
    ELSE _fallback_response(prompt)

meeting_keywords == {<<"b","o","o","k">>, <<"s","c","h","e","d","u","l","e">>, <<"m","e","e","t","i","n","g">>, <<"a","p","p","o","i","n","t","m","e","n","t">>, <<"c","a","l","l">>}

email_keywords == {<<"s","e","n","d">>, <<"e","m","a","i","l">>, <<"m","a","i","l">>, <<"m","e","s","s","a","g","e">>}

\* detect_intent_change gets as far as its backend call
AsksBackend(user_input, current_intent) ==
    /\ current_intent # None
    /\ ~(current_intent = "send_email" /\ ContainsAny(lower(user_input), meeting_keywords))
    /\ ~(current_intent = "schedule_meeting" /\ ContainsAny(lower(user_input), email_keywords))
    /\ api_key

detect_intent_change(user_input, current_intent, reply) ==
    IF current_intent = None THEN FALSE
    ELSE IF current_intent = "send_email" /\ ContainsAny(lower(user_input), meeting_keywords)
    THEN TRUE
    ELSE IF current_intent = "schedule_meeting" /\ ContainsAny(lower(user_input), email_keywords)
    THEN TRUE
    ELSE IF api_key
    THEN Contains(lower(call_gemini(DetectPrompt(user_input, IntentText(current_intent)), reply)),
                  <<"y","e","s">>)
    ELSE FALSE

classify_intent(user_input, reply) ==
    LET response == lower(call_gemini(ClassifyPrompt(user_input, <<>>), reply))
    IN  IF Contains(response, <<"s","c","h","e","d","u","l","e","_","m","e","e","t","i","n","g">>) THEN "schedule_meeting"
        ELSE IF Contains(response, <<"s","e","n","d","_","e","m","a","i","l">>) THEN "send_email"
        ELSE "chitchat"

-----------------------------------------------------------------------------
(* What the backend answers *)

\* Replies of the backend to the classification prompt
ClassifyReplies ==
    {Reply(IntentText(i)) : i \in env.intents} \cup {Unavailable}

\* Replies of the backend to the switch prompt
SwitchReplies == {Reply(text) : text \in env.switches} \cup {Unavailable}

\* The reply lines "KEY: value" that the parsers of _extract_*_entities_with_context
\* keep: per key of the intent at most one stripped, non-empty value.
ParsedReplies(keys) ==
    UNION {[S -> env.values] :
             S \in {T \in SUBSET (keys \cap env.keys) : Cardinality(T) <= env.max_fields}}

NoFields == [ok |-> FALSE, fields |-> EmptyDict]

ExtractReplies(intent) ==
    {[ok |-> TRUE, fields |-> f] : f \in ParsedReplies(SchemaKeys(intent))} \cup {NoFields}

\* What a backend call can get: without a key no request is made.
Backend(replies) == IF api_key THEN replies ELSE {r \in replies : ~r.ok}

\* How a file operation can end (TRUE: it succeeds)
Outcomes == IF env.faults THEN BOOLEAN ELSE {TRUE}

Weekdays == 0..6

-----------------------------------------------------------------------------
(* Date normalisation *)

\* (today + timedelta(days)).strftime('%Y-%m-%d'), as the offset from today
DateAfter(days) == <<"t","o","d","a","y","+">> \o <<(<<"0","1","2","3","4","5","6","7">>)[days + 1]>>

\* Faulty variant of _parse_date: on a Monday "monday" is the same day
_parse_date_same_day(text, weekday) ==
    LET date_str == strip(lower(text))
    IN  IF date_str = <<"t","o","d","a","y">> THEN DateAfter(0)
        ELSE IF date_str = <<"t","o","m","o","r","r","o","w">> THEN DateAfter(1)
        ELSE IF Contains(date_str, <<"n","e","x","t"," ","w","e","e","k">>) THEN DateAfter(7)
        ELSE IF Contains(date_str, <<"m","o","n","d","a","y">>)
        THEN LET days_ahead == 0 - weekday
             IN  DateAfter(IF days_ahead < 0 THEN days_ahead + 7 ELSE days_ahead)
        ELSE date_str

\* weekday: today.weekday(), Monday = 0. The texts of this model that reach the
\* dateutil fallback are not dates: the except branch returns them.
_parse_date(text, weekday) ==
    LET date_str == strip(lower(text))
    IN  IF date_str = <<"t","o","d","a","y">> THEN DateAfter(0)
        ELSE IF date_str = <<"t","o","m","o","r","r","o","w">> THEN DateAfter(1)
        ELSE IF Contains(date_str, <<"n","e","x","t"," ","w","e","e","k">>) THEN DateAfter(7)
        ELSE IF Contains(date_str, <<"m","o","n","d","a","y">>)
        THEN LET days_ahead == 0 - weekday
             IN  DateAfter(IF days_ahead <= 0 THEN days_ahead + 7 ELSE days_ahead)
        ELSE date_str

-----------------------------------------------------------------------------
(* Rule-based extraction *)

\* re.findall(address pattern, text) joined with ', ': no text of Messages holds an address
RegexEmails(text) == <<>>

\* the first time pattern that matches text: no text of Messages holds a time
RegexTime(text) == <<>>

\* group(1) of the title pattern, stripped: "book b" gives "b", the other texts
\* of Messages do not match
RegexTitle(text) == IF text = <<"b","o","o","k"," ","b">> THEN <<"b">> ELSE <<>>

\* group(1) of the first message pattern that matches: none matches a text of Messages
RegexBody(text) == [matched |-> FALSE, body |-> <<>>]

_regex_extract_meeting(text) ==
    LET participants == IF RegexEmails(text) # <<>>
                        THEN [k \in {"participants"} |-> RegexEmails(text)] ELSE EmptyDict
        time == IF RegexTime(text) # <<>>
                THEN [k \in {"time"} |-> RegexTime(text)] ELSE EmptyDict
        date == IF Contains(lower(text), <<"t","o","m","o","r","r","o","w">>) THEN [k \in {"date"} |-> <<"t","o","m","o","r","r","o","w">>]
                ELSE IF Contains(lower(text), <<"t","o","d","a","y">>) THEN [k \in {"date"} |-> <<"t","o","d","a","y">>]
                ELSE IF Contains(lower(text), <<"n","e","x","t"," ","w","e","e","k">>) THEN [k \in {"date"} |-> <<"n","e","x","t"," ","w","e","e","k">>]
                ELSE EmptyDict
        title == IF RegexTitle(text) # <<>>
                    /\ ~ContainsAny(lower(RegexTitle(text)),
                                    {<<"t","o","m","o","r","r","o","w">>, <<"t","o","d","a","y">>, <<"a","t">>, <<"w","i","t","h">>})
                 THEN [k \in {"title"} |-> RegexTitle(text)] ELSE EmptyDict
    IN  Update(Update(Update(participants, time), date), title)

_regex_extract_email(text) ==
    LET recipient == IF RegexEmails(text) # <<>>
                     THEN [k \in {"recipient"} |-> RegexEmails(text)] ELSE EmptyDict
        body == IF RegexBody(text).matched
                THEN [k \in {"body"} |-> RegexBody(text).body] ELSE EmptyDict
    IN  Update(recipient, body)

_extract_meeting_entities_with_context(user_input, reply, weekday) ==
    LET entities == IF api_key /\ reply.ok THEN reply.fields
                    ELSE _regex_extract_meeting(user_input)
    IN  [k \in DOMAIN entities |->
            IF k = "date" THEN _parse_date(entities[k], weekday) ELSE entities[k]]

_extract_email_entities_with_context(user_input, reply) ==
    IF api_key /\ reply.ok THEN reply.fields ELSE _regex_extract_email(user_input)

-----------------------------------------------------------------------------
(* Persistence *)

\* the limit extract_entities_with_context passes to get_conversation_history
HistoryLimit == 5

\* One element of a conversation file: the intent, entities and
\* awaiting_confirmation keys of conversation_data (the texts, the session id
\* and the timestamp are written too and decide nothing here).
ConversationData(intent, entities, awaiting_confirmation) ==
    [intent |-> intent, entities |-> entities,
     awaiting_confirmation |-> awaiting_confirmation]

\* read_ok: open and json.load succeed; otherwise the except branch returns []
get_conversation_history(limit, read_ok) ==
    IF ~read_ok \/ session_id \notin DOMAIN conversation_files THEN <<>>
    ELSE LET conversations == conversation_files[session_id]
         IN  IF Len(conversations) > limit
             THEN SubSeq(conversations, Len(conversations) - limit + 1, Len(conversations))
             ELSE conversations

\* Faulty variant of save_conversation: the file is rewritten with the new
\* entry alone
save_conversation_overwrites(intent, entities, awaiting_confirmation, write_ok) ==
    IF ~write_ok THEN conversation_files
    ELSE [s \in DOMAIN conversation_files \cup {session_id} |->
             IF s = session_id
             THEN <<ConversationData(intent, entities, awaiting_confirmation)>>
             ELSE conversation_files[s]]

\* The conversation files after save_conversation; write_ok: the read and the
\* write succeed, otherwise the except branch leaves the file as it was.
save_conversation(intent, entities, awaiting_confirmation, write_ok) ==
    IF ~write_ok THEN conversation_files
    ELSE LET conversations == IF session_id \in DOMAIN conversation_files
                              THEN conversation_files[session_id] ELSE <<>>
         IN  [s \in DOMAIN conversation_files \cup {session_id} |->
                 IF s = session_id
                 THEN Append(conversations,
                             ConversationData(intent, entities, awaiting_confirmation))
                 ELSE conversation_files[s]]

\* conversations/actions.json after save_action
save_action(action_type, action_data, executed, write_ok) ==
    IF ~write_ok THEN actions_file
    ELSE Append(actions_file,
                [session_id |-> session_id, action_type |-> action_type,
                 action_data |-> action_data, executed |-> executed])

-----------------------------------------------------------------------------
(* Entity merge *)

\* Faulty variant of the merge loop: the values of every earlier turn, whatever
\* its intent
RECURSIVE PreviousEntitiesAnyIntent(_, _, _)
PreviousEntitiesAnyIntent(history, intent, previous_entities) ==
    IF history = <<>> THEN previous_entities
    ELSE LET conv == Head(history)
             usable == {k \in DOMAIN conv.entities :
                           /\ ~IsBlank(conv.entities[k])
                           /\ conv.entities[k] # <<"N","/","A">>}
         IN  PreviousEntitiesAnyIntent(
                 Tail(history), intent,
                 Update(previous_entities, [k \in usable |-> conv.entities[k]]))

\* The loop of extract_entities_with_context over the history: the values of
\* earlier turns of the same intent, a later turn's value replacing an earlier one.
RECURSIVE PreviousEntities(_, _, _)
PreviousEntities(history, intent, previous_entities) ==
    IF history = <<>> THEN previous_entities
    ELSE LET conv == Head(history)
             usable == {k \in DOMAIN conv.entities :
                           /\ ~IsBlank(conv.entities[k])
                           /\ conv.entities[k] # <<"N","/","A">>}
             next == IF conv.intent = intent /\ DOMAIN conv.entities # {}
                     THEN Update(previous_entities, [k \in usable |-> conv.entities[k]])
                     ELSE previous_entities
         IN  PreviousEntities(Tail(history), intent, next)

\* datetime.now() decides the result of _parse_date only in its 'monday' branch
ReadsWeekday(user_input, intent, reply) ==
    /\ intent = "schedule_meeting"
    /\ LET entities == IF api_key /\ reply.ok THEN reply.fields
                       ELSE _regex_extract_meeting(user_input)
       IN  "date" \in DOMAIN entities /\ Contains(strip(lower(entities["date"])), <<"m","o","n","d","a","y">>)

\* What _extract_meeting_entities_with_context / _extract_email_entities_with_context
\* return for this turn's input
ExtractedNow(user_input, intent, reply, weekday) ==
    IF intent = "schedule_meeting"
    THEN _extract_meeting_entities_with_context(user_input, reply, weekday)
    ELSE IF intent = "send_email"
    THEN _extract_email_entities_with_context(user_input, reply)
    ELSE EmptyDict

extract_entities_with_context(user_input, intent, reply, weekday, read_ok) ==
    Update(PreviousEntities(get_conversation_history(HistoryLimit, read_ok), intent, EmptyDict),
           ExtractedNow(user_input, intent, reply, weekday))

-----------------------------------------------------------------------------
(* Action executor *)

\* Python's None where a pending action is expected
NoAction == [intent |-> None, entities |-> EmptyDict]

\* The arguments execute_action was called with in a turn, if it was called
NotExecuted == [called |-> FALSE, intent |-> None, entities |-> EmptyDict]

Executed(intent, entities) == [called |-> TRUE, intent |-> intent, entities |-> entities]

\* entities.get(k) without a default renders as None
NoneText == <<"N","o","n","e">>

\* execute_action: the response, the action log after save_action, the outbox
\* after the write, and whether the outbox write raised (it is not in a try block).
execute_action(intent, entities, action_ok, outbox_ok) ==
    IF intent = "schedule_meeting"
    THEN LET meeting_data ==
                 [type |-> "meeting",
                  title |-> Get(entities, "title", <<"M","e","e","t","i","n","g">>),
                  date |-> Get(entities, "date", NoneText),
                  time |-> Get(entities, "time", NoneText),
                  participants |-> Get(entities, "participants", <<>>)]
         IN  [actions |-> save_action("meeting", meeting_data, TRUE, action_ok),
              outbox |-> IF outbox_ok THEN Append(outbox, meeting_data) ELSE outbox,
              raised |-> ~outbox_ok,
              response |-> Response("meeting_booked",
                                    <<meeting_data.title, meeting_data.date, meeting_data.time>>)]
    ELSE IF intent = "send_email"
    THEN LET email_data ==
                 [type |-> "email",
                  recipient |-> Get(entities, "recipient", NoneText),
                  subject |-> Get(entities, "subject", <<"N","o"," ","s","u","b","j","e","c","t">>),
                  body |-> Get(entities, "body", NoneText)]
         IN  [actions |-> save_action("email", email_data, TRUE, action_ok),
              outbox |-> IF outbox_ok THEN Append(outbox, email_data) ELSE outbox,
              raised |-> ~outbox_ok,
              response |-> Response("email_sent", <<email_data.recipient>>)]
    ELSE [actions |-> actions_file, outbox |-> outbox, raised |-> FALSE,
          response |-> Response("action_completed", <<>>)]

-----------------------------------------------------------------------------
(* The assistant *)

\* the dict __init__, reset_session and the three resets of process_message assign
\* (conversation_context is always the empty list and is left out)
FreshState ==
    [intent |-> None, entities |-> EmptyDict, awaiting_confirmation |-> FALSE,
     pending_action |-> NoAction, gathering_info |-> FALSE, missing_fields |-> <<>>]

\* The record of one handler call, kept for the properties.
\* failed: the file operations of the call that raised inside a try block
Failed(read_ok, write_ok, action_ok) ==
    (IF read_ok THEN {} ELSE {"read"}) \cup (IF write_ok THEN {} ELSE {"write"})
    \cup (IF action_ok THEN {} ELSE {"action"})

Observed(op, message, response, raised, executed, consulted, switched, extracted, failed) ==
    [op |-> op, message |-> message, response |-> response, raised |-> raised,
     executed |-> executed, consulted |-> consulted, switched |-> switched,
     extracted |-> extracted, failed |-> failed,
     began |-> [intent |-> conversation_state.intent,
                gathering_info |-> conversation_state.gathering_info,
                awaiting_confirmation |-> conversation_state.awaiting_confirmation]]

\* The wide environment: every text of Messages, replies that fill any fields
\* of the intent, file operations that may fail; few turns.
WideEnv ==
    [messages |-> Messages, values |-> {<<"a">>}, keys |-> MeetingKeys \cup EmailKeys,
     intents |-> {"schedule_meeting", "send_email", "chitchat"},
     max_fields |-> MaxExtracted, faults |-> TRUE, turns |-> MaxTurns, clients |-> {1},
     switches |-> {<<"Y","E","S">>, <<"N","O">>}]

\* The deep environment: the token texts and one other text, replies that fill
\* the title, the recipient or the body, file operations that may fail; more turns.
DeepEnv ==
    [messages |-> {<<" ","Y","e","s"," ">>, <<"N","o">>, <<"n","o","t"," ","y","e","s">>}, values |-> {<<"a">>},
     keys |-> {"title", "recipient", "body"},
     intents |-> {"schedule_meeting", "send_email", "chitchat"},
     max_fields |-> MaxDeepExtracted, faults |-> TRUE, turns |-> MaxDeepTurns,
     clients |-> {1}, switches |-> {<<"Y","E","S">>, <<"N","O">>}]

\* The long environment: one text that is no token and carries no keyword,
\* classification replies that name a meeting or chitchat, extraction replies
\* that fill the title or nothing, a disk that works; many turns.
LongEnv ==
    [messages |-> {<<"n","o","t"," ","y","e","s">>}, values |-> {<<"a">>}, keys |-> {"title"},
     intents |-> {"schedule_meeting", "chitchat"},
     max_fields |-> MaxLongExtracted, faults |-> FALSE, turns |-> MaxLongTurns,
     clients |-> {1}, switches |-> {<<"Y","E","S">>, <<"N","O">>}]

\* No handler call of the client is suspended: neither an execute_action call
\* between its read and its write of actions.json (stage "execute") nor a
\* process_message call waiting for the classification (stage "classify")
NotInFlight ==
    [busy |-> FALSE, stage |-> "none", message |-> <<>>, intent |-> None,
     entities |-> EmptyDict, actions |-> <<>>, record |-> <<>>,
     switched |-> FALSE, asked |-> {}, session |-> 0,
     began |-> [intent |-> None, gathering_info |-> FALSE, awaiting_confirmation |-> FALSE]]

\* No call of a pure method is under study
NoCall ==
    [fn |-> "none", user_input |-> <<>>, current_intent |-> None, reply |-> Unavailable,
     weekday |-> 0, entities |-> EmptyDict, done |-> TRUE, result |-> <<>>]

\* The state after GeminiAssistant() in a working directory without files
InitIn(environment) ==
    /\ env = environment
    /\ actor = 0
    /\ inflight = [client \in environment.clients |-> NotInFlight]
    /\ call = NoCall
    /\ session_id = 0
    /\ conversation_files = [s \in {} |-> <<>>]
    /\ actions_file = <<>>
    /\ outbox = <<>>
    /\ conversation_state = FreshState
    /\ turns = 0
    /\ last = [op |-> "init", message |-> <<>>, response |-> NoResponse, raised |-> FALSE,
               executed |-> NotExecuted, consulted |-> {}, switched |-> FALSE,
               extracted |-> EmptyDict, failed |-> {},
               began |-> [intent |-> None, gathering_info |-> FALSE,
                          awaiting_confirmation |-> FALSE]]

Init ==
    \/ api_key \in BOOLEAN /\ InitIn(WideEnv)
    \/ api_key = TRUE /\ InitIn(DeepEnv)

InitLong == api_key = TRUE /\ InitIn(LongEnv)

\* Faulty variant of reset_session: the session identifier, hence the
\* conversation file, is kept
reset_session_same_file ==
    /\ session_id' = session_id
    /\ conversation_state' = FreshState
    /\ UNCHANGED <<api_key, conversation_files, actions_file, outbox, turns, env>>

\* Faulty variant of reset_session: a new session that keeps the gathered entities
reset_session_keeps_entities ==
    /\ session_id' = session_id + 1
    /\ conversation_state' = [FreshState EXCEPT !.entities = conversation_state.entities]
    /\ UNCHANGED <<api_key, conversation_files, actions_file, outbox, turns, env>>

\* Faulty variant of reset_session: the intent and the entities are cleared, the
\* mode flags stay
reset_session_keeps_mode ==
    /\ session_id' = session_id + 1
    /\ conversation_state' = [conversation_state EXCEPT !.intent = None,
                                                        !.entities = EmptyDict]
    /\ UNCHANGED <<api_key, conversation_files, actions_file, outbox, turns, env>>

\* reset_session: a fresh uuid4, hence a conversation file that does not exist yet
reset_session ==
    /\ session_id' = session_id + 1
    /\ conversation_state' = FreshState
    /\ UNCHANGED <<api_key, conversation_files, actions_file, outbox, turns, env>>

\* process_message, awaiting confirmation and an affirmative token
ProcessConfirmed(message) ==
    /\ conversation_state.awaiting_confirmation
    /\ IsAffirmative(message)
    /\ LET st == conversation_state
           executed == Executed(st.intent, st.entities)
           writes == IF st.intent \in TaskIntents THEN Outcomes ELSE {TRUE}
       IN  \E action_ok \in writes, outbox_ok \in writes :
             LET result == execute_action(st.intent, st.entities, action_ok, outbox_ok)
             IN  /\ actions_file' = result.actions
                 /\ outbox' = result.outbox
                 /\ IF result.raised
                    THEN /\ UNCHANGED <<conversation_files, conversation_state>>
                         /\ last' = Observed("process_message", message, NoResponse, TRUE,
                                             executed, {}, FALSE, EmptyDict,
                                             Failed(TRUE, TRUE, action_ok))
                    ELSE /\ \E write_ok \in Outcomes :
                              /\ conversation_files' =
                                     save_conversation(st.intent, st.entities, FALSE, write_ok)
                              /\ last' = Observed("process_message", message, result.response,
                                                  FALSE, executed, {}, FALSE, EmptyDict,
                                                  Failed(TRUE, write_ok, action_ok))
                         /\ conversation_state' = FreshState

\* Faulty variant of the cancel branch: the flags are cleared, the intent and the
\* entities stay
ProcessCancelledKeepsIntent(message) ==
    /\ conversation_state.awaiting_confirmation
    /\ ~IsAffirmative(message)
    /\ IsNegative(message)
    /\ \E write_ok \in Outcomes :
         /\ conversation_files' = save_conversation(None, EmptyDict, FALSE, write_ok)
         /\ last' = Observed("process_message", message, CancelResponse, FALSE,
                             NotExecuted, {}, FALSE, EmptyDict, Failed(TRUE, write_ok, TRUE))
    /\ conversation_state' = [conversation_state EXCEPT !.awaiting_confirmation = FALSE,
                                                        !.gathering_info = FALSE,
                                                        !.pending_action = NoAction]
    /\ UNCHANGED <<actions_file, outbox>>

\* process_message, awaiting confirmation and a negative token
ProcessCancelled(message) ==
    /\ conversation_state.awaiting_confirmation
    /\ ~IsAffirmative(message)
    /\ IsNegative(message)
    /\ \E write_ok \in Outcomes :
         /\ conversation_files' = save_conversation(None, EmptyDict, FALSE, write_ok)
         /\ last' = Observed("process_message", message, CancelResponse, FALSE,
                             NotExecuted, {}, FALSE, EmptyDict, Failed(TRUE, write_ok, TRUE))
    /\ conversation_state' = FreshState
    /\ UNCHANGED <<actions_file, outbox>>

\* process_message after extract_entities_with_context: the missing fields, then
\* the question or the confirmation
ProcessTask(message, st2, intent, extracted, entities, asked, switched, read_ok) ==
    LET missing_fields == get_missing_fields(intent, entities)
        question == get_next_missing_field_question(intent, missing_fields)
        st3 == [st2 EXCEPT !.entities = entities, !.missing_fields = missing_fields]
        st4 == [st3 EXCEPT !.gathering_info = TRUE]
        st5 == [(IF missing_fields # <<>> THEN st4 ELSE st3) EXCEPT
                   !.gathering_info = FALSE,
                   !.awaiting_confirmation = TRUE,
                   !.pending_action = [intent |-> intent, entities |-> entities]]
    IN  \E write_ok \in Outcomes :
          IF missing_fields # <<>> /\ question # NoResponse
          THEN /\ conversation_files' = save_conversation(intent, entities, FALSE, write_ok)
               /\ conversation_state' = st4
               /\ last' = Observed("process_message", message, question, FALSE, NotExecuted,
                                   asked, switched, extracted,
                                   Failed(read_ok, write_ok, TRUE))
          ELSE /\ conversation_files' = save_conversation(intent, entities, TRUE, write_ok)
               /\ conversation_state' = st5
               /\ last' = Observed("process_message", message,
                                   generate_confirmation(intent, entities), FALSE, NotExecuted,
                                   asked, switched, extracted,
                                   Failed(read_ok, write_ok, TRUE))

\* Faulty variant of Classified: the classification also enters gathering mode
ClassifiedGathers(state, intent) ==
    [state EXCEPT !.intent = intent, !.gathering_info = TRUE]

\* self.conversation_state["intent"] = intent
Classified(state, intent) == [state EXCEPT !.intent = intent]

\* process_message from the switch check on: every other turn
ProcessFresh(message) ==
    /\ ~(conversation_state.awaiting_confirmation
         /\ (IsAffirmative(message) \/ IsNegative(message)))
    /\ LET current_intent == conversation_state.intent
           checked == /\ current_intent # None
                      /\ (conversation_state.gathering_info
                          \/ conversation_state.awaiting_confirmation)
       IN  \E switch_reply \in IF checked /\ AsksBackend(message, current_intent)
                                THEN SwitchReplies ELSE {Unavailable},
              classify_reply \in Backend(ClassifyReplies) :
             LET switched == checked /\ detect_intent_change(message, current_intent, switch_reply)
                 st1 == IF switched THEN FreshState ELSE conversation_state
                 intent == classify_intent(message, classify_reply)
                 st2 == Classified(st1, intent)
                 asked == (IF checked THEN {"switch"} ELSE {}) \cup {"classify"}
             IN  IF intent = "chitchat"
                 THEN /\ \E write_ok \in Outcomes :
                           /\ conversation_files' =
                                  save_conversation(intent, EmptyDict, FALSE, write_ok)
                           /\ last' = Observed("process_message", message,
                                               _handle_chitchat(message), FALSE, NotExecuted,
                                               asked, switched, EmptyDict,
                                               Failed(TRUE, write_ok, TRUE))
                      /\ conversation_state' = st2
                 ELSE \E extract_reply \in Backend(ExtractReplies(intent)),
                         read_ok \in IF session_id \in DOMAIN conversation_files
                                     THEN Outcomes ELSE {TRUE} :
                        \E weekday \in IF ReadsWeekday(message, intent, extract_reply)
                                       THEN Weekdays ELSE {0} :
                          ProcessTask(message, st2, intent,
                                      ExtractedNow(message, intent, extract_reply, weekday),
                                      extract_entities_with_context(
                                          message, intent, extract_reply, weekday, read_ok),
                                      asked \cup {"extract"}, switched, read_ok)
    /\ UNCHANGED <<actions_file, outbox>>

process_message(message) ==
    /\ \/ ProcessConfirmed(message)
       \/ ProcessCancelled(message)
       \/ ProcessFresh(message)
    /\ turns' = turns + 1
    /\ UNCHANGED <<api_key, session_id, env>>

\* respond -> chat_function -> assistant.process_message; a blank message returns at once
respond(message) ==
    /\ turns < env.turns
    /\ strip(message) # <<>>
    /\ process_message(message)

\* new_chat -> assistant.reset_session
new_chat ==
    /\ session_id < MaxResets
    /\ reset_session
    /\ last' = Observed("reset_session", <<>>, NoResponse, FALSE, NotExecuted, {}, FALSE,
                        EmptyDict, {})

\* The handler call served the event of this client, from its first statement
\* to its return
Served(client) ==
    /\ actor' = client
    /\ UNCHANGED <<inflight, call>>

Next ==
    \/ \E client \in env.clients, message \in env.messages : respond(message) /\ Served(client)
    \/ \E client \in env.clients : new_chat /\ Served(client)

Spec == Init /\ [][Next]_vars

\* The long conversation: seven turns in a narrow environment
SpecLong == InitLong /\ [][Next]_vars

\* The slot-filling environment: one text, which confirms when a confirmation
\* is awaited and is an ordinary text otherwise; every turn classified as a
\* meeting, the switch detector never answering yes, replies that fill one
\* field of the meeting or none, a disk that works; six turns.
SlotsEnv ==
    [messages |-> {<<" ","Y","e","s"," ">>}, values |-> {<<"a">>}, keys |-> MeetingKeys,
     intents |-> {"schedule_meeting"},
     max_fields |-> MaxSlotExtracted, faults |-> FALSE, turns |-> MaxSlotTurns,
     clients |-> {1}, switches |-> {<<"N","O">>}]

\* The same with file operations that may fail; three turns.
FaultySlotsEnv == [SlotsEnv EXCEPT !.faults = TRUE, !.turns = MaxFaultySlotTurns]

InitSlots ==
    /\ api_key = TRUE
    /\ InitIn(SlotsEnv) \/ InitIn(FaultySlotsEnv)

\* The turns of one meeting
SpecSlots == InitSlots /\ [][Next]_vars

-----------------------------------------------------------------------------
(* Two browser clients *)

\* The shared environment: two clients of the one module-level assistant, a
\* confirming text and one other text, replies that fill the fields of an
\* email, a disk that works.
SharedEnv ==
    [messages |-> {<<" ","Y","e","s"," ">>, <<"n","o","t"," ","y","e","s">>}, values |-> {<<"a">>},
     keys |-> {"recipient", "subject", "body"},
     intents |-> {"send_email"},
     max_fields |-> MaxSharedExtracted, faults |-> FALSE, turns |-> MaxSharedTurns,
     clients |-> {1, 2}, switches |-> {<<"Y","E","S">>, <<"N","O">>}]

InitShared == api_key = TRUE /\ InitIn(SharedEnv)

\* respond of one client, as far as the read of actions.json in save_action:
\* process_message has taken the affirmative branch, execute_action has built
\* the record and save_action has loaded the file. Gradio runs the handlers of
\* different events in worker threads, and no lock guards the file.
BeginExecute(client, message) ==
    /\ turns < env.turns
    /\ strip(message) # <<>>
    /\ ~inflight[client].busy
    /\ conversation_state.awaiting_confirmation
    /\ IsAffirmative(message)
    /\ conversation_state.intent \in TaskIntents
    /\ LET st == conversation_state
           written == execute_action(st.intent, st.entities, TRUE, TRUE).actions
       IN  inflight' = [inflight EXCEPT ![client] =
                           [busy |-> TRUE, stage |-> "execute", message |-> message,
                            intent |-> st.intent,
                            entities |-> st.entities, actions |-> actions_file,
                            record |-> written[Len(written)],
                            switched |-> FALSE, asked |-> {}, session |-> session_id,
                            began |-> [intent |-> st.intent,
                                       gathering_info |-> st.gathering_info,
                                       awaiting_confirmation |-> st.awaiting_confirmation]]]
    /\ turns' = turns + 1
    /\ actor' = client
    /\ UNCHANGED <<api_key, session_id, conversation_files, actions_file, outbox,
                   conversation_state, env, last, call>>

\* The rest of that call: save_action appends to what it loaded and writes the
\* file, execute_action writes the outbox file, process_message saves the turn
\* and resets the state.
FinishExecute(client) ==
    /\ inflight[client].busy
    /\ inflight[client].stage = "execute"
    /\ LET f == inflight[client]
           executed == Executed(f.intent, f.entities)
       IN  \E action_ok \in Outcomes, outbox_ok \in Outcomes, write_ok \in Outcomes :
             LET result == execute_action(f.intent, f.entities, action_ok, outbox_ok)
             IN  /\ actions_file' = IF action_ok THEN Append(f.actions, f.record)
                                     ELSE actions_file
                 /\ outbox' = result.outbox
                 /\ IF result.raised
                    THEN /\ UNCHANGED <<conversation_files, conversation_state>>
                         /\ last' = [Observed("process_message", f.message, NoResponse, TRUE,
                                              executed, {}, FALSE, EmptyDict,
                                              Failed(TRUE, TRUE, action_ok))
                                       EXCEPT !.began = f.began]
                    ELSE /\ conversation_files' =
                                save_conversation(conversation_state.intent,
                                                  conversation_state.entities, FALSE, write_ok)
                         /\ conversation_state' = FreshState
                         /\ last' = [Observed("process_message", f.message, result.response,
                                              FALSE, executed, {}, FALSE, EmptyDict,
                                              Failed(TRUE, write_ok, action_ok))
                                       EXCEPT !.began = f.began]
    /\ inflight' = [inflight EXCEPT ![client] = NotInFlight]
    /\ actor' = client
    /\ UNCHANGED <<api_key, session_id, turns, env, call>>

NextShared ==
    \/ \E client \in env.clients, message \in env.messages : respond(message) /\ Served(client)
    \/ \E client \in env.clients : new_chat /\ Served(client)
    \/ \E client \in env.clients, message \in env.messages : BeginExecute(client, message)
    \/ \E client \in env.clients : FinishExecute(client)

SpecShared == InitShared /\ [][NextShared]_vars

-----------------------------------------------------------------------------
(* A handler call waiting for the backend *)

\* The environment of the suspended turn: one client, one text that is no
\* token, classification replies that name a meeting or chitchat, extraction
\* replies that fill the title or nothing, a disk that works.
RaceEnv ==
    [messages |-> {<<"n","o","t"," ","y","e","s">>}, values |-> {<<"a">>}, keys |-> {"title"},
     intents |-> {"schedule_meeting", "chitchat"},
     max_fields |-> MaxRaceExtracted, faults |-> FALSE, turns |-> MaxRaceTurns,
     clients |-> {1}, switches |-> {<<"Y","E","S">>, <<"N","O">>}]

InitRace == api_key = TRUE /\ InitIn(RaceEnv)

\* respond of one client, as far as the request of classify_intent:
\* process_message has passed the confirmation check and the switch check
\* (and has reset the state on a switch) and waits in call_gemini for the
\* reply. The handlers of the other events run in other worker threads and
\* no lock guards the assistant.
BeginTurn(client, message) ==
    /\ turns < env.turns
    /\ strip(message) # <<>>
    /\ ~inflight[client].busy
    /\ ~(conversation_state.awaiting_confirmation
         /\ (IsAffirmative(message) \/ IsNegative(message)))
    /\ LET st == conversation_state
           current_intent == st.intent
           checked == /\ current_intent # None
                      /\ (st.gathering_info \/ st.awaiting_confirmation)
       IN  \E switch_reply \in IF checked /\ AsksBackend(message, current_intent)
                                THEN SwitchReplies ELSE {Unavailable} :
             LET switched == checked /\ detect_intent_change(message, current_intent,
                                                             switch_reply)
             IN  /\ conversation_state' = IF switched THEN FreshState ELSE st
                 /\ inflight' = [inflight EXCEPT ![client] =
                        [NotInFlight EXCEPT
                            !.busy = TRUE, !.stage = "classify", !.message = message,
                            !.switched = switched,
                            !.asked = IF checked THEN {"switch"} ELSE {},
                            !.session = session_id,
                            !.began = [intent |-> st.intent,
                                       gathering_info |-> st.gathering_info,
                                       awaiting_confirmation |-> st.awaiting_confirmation]]]
    /\ turns' = turns + 1
    /\ actor' = client
    /\ UNCHANGED <<api_key, session_id, conversation_files, actions_file, outbox,
                   env, last, call>>

\* The rest of that call, from the reply of the classification on: it writes
\* the intent, the entities and the mode into the state it finds.
FinishTurn(client) ==
    /\ inflight[client].busy
    /\ inflight[client].stage = "classify"
    /\ LET f == inflight[client]
       IN  \E classify_reply \in Backend(ClassifyReplies) :
             LET intent == classify_intent(f.message, classify_reply)
                 st2 == Classified(conversation_state, intent)
                 asked == f.asked \cup {"classify"}
             IN  IF intent = "chitchat"
                 THEN /\ \E write_ok \in Outcomes :
                           /\ conversation_files' =
                                  save_conversation(intent, EmptyDict, FALSE, write_ok)
                           /\ last' = Observed("process_message", f.message,
                                               _handle_chitchat(f.message), FALSE,
                                               NotExecuted, asked, f.switched, EmptyDict,
                                               Failed(TRUE, write_ok, TRUE))
                      /\ conversation_state' = st2
                 ELSE \E extract_reply \in Backend(ExtractReplies(intent)),
                         read_ok \in IF session_id \in DOMAIN conversation_files
                                     THEN Outcomes ELSE {TRUE} :
                        \E weekday \in IF ReadsWeekday(f.message, intent, extract_reply)
                                       THEN Weekdays ELSE {0} :
                          ProcessTask(f.message, st2, intent,
                                      ExtractedNow(f.message, intent, extract_reply, weekday),
                                      extract_entities_with_context(
                                          f.message, intent, extract_reply, weekday, read_ok),
                                      asked \cup {"extract"}, f.switched, read_ok)
    /\ inflight' = [inflight EXCEPT ![client] = NotInFlight]
    /\ actor' = client
    /\ UNCHANGED <<api_key, session_id, actions_file, outbox, turns, env, call>>

NextRace ==
    \/ \E client \in env.clients, message \in env.messages : respond(message) /\ Served(client)
    \/ \E client \in env.clients : new_chat /\ Served(client)
    \/ \E client \in env.clients, message \in env.messages : BeginTurn(client, message)
    \/ \E client \in env.clients : FinishTurn(client)

SpecRace == InitRace /\ [][NextRace]_vars

-----------------------------------------------------------------------------
(* The pure methods, called on their own *)

\* The environment of a single call: the backend may give any reply of the
\* wide environment; no turn is processed.
CallsEnv == [WideEnv EXCEPT !.messages = CallTexts, !.turns = 0]

\* The field maps of the calls studied: any keys of the two schemas, each with
\* a value, the empty string or a whitespace-only string
CallFieldMaps ==
    UNION {[S -> CallValues] : S \in SUBSET MeetingKeys \cup SUBSET EmailKeys}

\* The arguments of the calls studied
PendingCalls ==
    {[fn |-> "detect_intent_change", user_input |-> user_input,
      current_intent |-> current_intent, reply |-> reply, weekday |-> 0, entities |-> EmptyDict,
      done |-> FALSE, result |-> <<>>] :
        user_input \in CallTexts,
        current_intent \in {None, "schedule_meeting", "send_email", "chitchat"},
        reply \in {Reply(<<"Y","E","S">>), Reply(<<"N","O">>), Unavailable}}
    \cup {[fn |-> "classify_intent", user_input |-> user_input,
           current_intent |-> None, reply |-> reply, weekday |-> 0, entities |-> EmptyDict,
           done |-> FALSE, result |-> <<>>] :
             user_input \in CallTexts,
             reply \in {Reply(<<"s","c","h","e","d","u","l","e","_","m","e","e","t","i","n","g">>), Reply(<<"s","e","n","d","_","e","m","a","i","l">>),
                        Reply(<<"c","h","i","t","c","h","a","t">>), Unavailable}}
    \cup {[fn |-> "_parse_date", user_input |-> date_str,
           current_intent |-> None, reply |-> Unavailable, weekday |-> weekday, entities |-> EmptyDict,
           done |-> FALSE, result |-> <<>>] :
             date_str \in CallDates, weekday \in Weekdays}
    \cup {[fn |-> fn, user_input |-> <<>>,
           current_intent |-> intent, reply |-> Unavailable, weekday |-> 0,
           entities |-> entities, done |-> FALSE, result |-> <<>>] :
             fn \in {"get_missing_fields", "get_next_missing_field_question"},
             intent \in TaskIntents, entities \in CallFieldMaps}

InitCalls ==
    /\ api_key \in BOOLEAN
    /\ env = CallsEnv
    /\ session_id = 0
    /\ conversation_files = [s \in {} |-> <<>>]
    /\ actions_file = <<>>
    /\ outbox = <<>>
    /\ conversation_state = FreshState
    /\ turns = 0
    /\ last = [op |-> "init", message |-> <<>>, response |-> NoResponse, raised |-> FALSE,
               executed |-> NotExecuted, consulted |-> {}, switched |-> FALSE,
               extracted |-> EmptyDict, failed |-> {},
               began |-> [intent |-> None, gathering_info |-> FALSE,
                          awaiting_confirmation |-> FALSE]]
    /\ actor = 0
    /\ inflight = [client \in CallsEnv.clients |-> NotInFlight]
    /\ call \in PendingCalls

Returned(result) ==
    /\ ~call.done
    /\ call' = [call EXCEPT !.done = TRUE, !.result = result]
    /\ UNCHANGED <<api_key, session_id, conversation_files, actions_file, outbox,
                   conversation_state, turns, env, last, actor, inflight>>

CallDetectIntentChange ==
    /\ call.fn = "detect_intent_change"
    /\ Returned(detect_intent_change(call.user_input, call.current_intent, call.reply))

CallClassifyIntent ==
    /\ call.fn = "classify_intent"
    /\ Returned(classify_intent(call.user_input, call.reply))

CallParseDate ==
    /\ call.fn = "_parse_date"
    /\ Returned(_parse_date(call.user_input, call.weekday))

CallGetMissingFields ==
    /\ call.fn = "get_missing_fields"
    /\ Returned(get_missing_fields(call.current_intent, call.entities))

\* as process_message calls it: on the list get_missing_fields returned
CallGetNextMissingFieldQuestion ==
    /\ call.fn = "get_next_missing_field_question"
    /\ Returned(get_next_missing_field_question(
                    call.current_intent,
                    get_missing_fields(call.current_intent, call.entities)))

NextCalls ==
    \/ CallDetectIntentChange
    \/ CallClassifyIntent
    \/ CallParseDate
    \/ CallGetMissingFields
    \/ CallGetNextMissingFieldQuestion

SpecCalls == InitCalls /\ [][NextCalls]_vars

-----------------------------------------------------------------------------
(* Properties *)

\* The tokens as the specification lists them
YesTokens == {<<"y","e","s">>, <<"y">>, <<"c","o","n","f","i","r","m">>, <<"o","k">>, <<"o","k","a","y">>, <<"s","u","r","e">>}

NoTokens == {<<"n","o">>, <<"n">>, <<"c","a","n","c","e","l">>, <<"n","e","v","e","r","m","i","n","d">>}

Trimmed(message) == strip(lower(message))

\* The required fields and the field schema as the specification lists them
RequiredOf(intent) ==
    IF intent = "schedule_meeting" THEN {"title", "date", "time", "participants"}
    ELSE IF intent = "send_email" THEN {"recipient", "body"}
    ELSE {}

SchemaOf(intent) ==
    IF intent = "schedule_meeting" THEN {"title", "date", "time", "participants"}
    ELSE IF intent = "send_email" THEN {"recipient", "subject", "body"}
    ELSE {}

\* The idle state, field by field
IdleState ==
    /\ conversation_state.intent = None
    /\ conversation_state.entities = EmptyDict
    /\ ~conversation_state.awaiting_confirmation
    /\ ~conversation_state.gathering_info
    /\ conversation_state.missing_fields = <<>>
    /\ conversation_state.pending_action = NoAction

\* The step is a turn of process_message that began awaiting confirmation
ConfirmationTurn ==
    /\ conversation_state.awaiting_confirmation
    /\ turns' = turns + 1
    /\ last'.op = "process_message"

\* The turns logged for the current session
SessionLog ==
    IF session_id \in DOMAIN conversation_files THEN conversation_files[session_id] ELSE <<>>

\* C1: in every reachable state, awaiting_confirmation implies that
\* missing_fields is empty and that every required field of the current intent
\* is present and non-blank in the entities.
AwaitingImpliesComplete ==
    conversation_state.awaiting_confirmation =>
        /\ conversation_state.missing_fields = <<>>
        /\ \A k \in RequiredOf(conversation_state.intent) :
              /\ k \in DOMAIN conversation_state.entities
              /\ ~IsBlank(conversation_state.entities[k])

\* C2: execute_action is called, a record is appended to the action log or a
\* file is written to the outbox only in a turn that begins awaiting
\* confirmation and whose message, trimmed and lower-cased, is an affirmative token.
ConfirmationGate ==
    [][(\/ last'.executed.called
        \/ actions_file' # actions_file
        \/ outbox' # outbox)
       => /\ ConfirmationTurn
          /\ Trimmed(last'.message) \in YesTokens]_vars

\* An action was executed and its record written to the log and the outbox
ConfirmationGateWitness ==
    /\ last.op = "process_message"
    /\ last.executed.called
    /\ last.began.awaiting_confirmation
    /\ Len(actions_file) > 0
    /\ Len(outbox) > 0

\* C3: a turn that begins awaiting confirmation with an affirmative token calls
\* the executor with the state's intent and entities, answers with its success
\* message, ends in the idle state and consults neither the switch detector nor
\* the classifier nor the extractor.
AffirmativeExecutesAndResets ==
    [][(ConfirmationTurn /\ Trimmed(last'.message) \in YesTokens)
       => /\ last'.executed
                = Executed(conversation_state.intent, conversation_state.entities)
          /\ ~last'.raised
          /\ last'.response.kind \in {"meeting_booked", "email_sent", "action_completed"}
          /\ IdleState'
          /\ last'.consulted = {}]_vars

\* C4: a turn that begins awaiting confirmation with a negative token answers
\* with the cancellation acknowledgment, ends in the idle state, executes no
\* action and adds nothing to the action log or the outbox.
NegativeCancels ==
    [][(ConfirmationTurn /\ Trimmed(last'.message) \in NoTokens)
       => /\ last'.response = CancelResponse
          /\ IdleState'
          /\ ~last'.executed.called
          /\ ~last'.raised
          /\ actions_file' = actions_file
          /\ outbox' = outbox]_vars

\* A pending action was cancelled by a negative token
NegativeCancelsWitness ==
    /\ last.op = "process_message"
    /\ last.began.awaiting_confirmation
    /\ last.began.intent \in TaskIntents
    /\ Trimmed(last.message) \in NoTokens
    /\ last.response = CancelResponse

\* C5: a turn that begins awaiting confirmation with a message that is neither
\* an affirmative nor a negative token executes nothing and does not take the
\* cancel branch; the message goes through switch detection, classification
\* and, for a task intent, extraction, and a response is returned.
OtherInputFallsThrough ==
    [][(ConfirmationTurn /\ Trimmed(last'.message) \notin YesTokens \cup NoTokens)
       => /\ ~last'.executed.called
          /\ actions_file' = actions_file
          /\ outbox' = outbox
          /\ last'.response # CancelResponse
          /\ last'.response # NoResponse
          /\ ~last'.raised
          /\ {"switch", "classify"} \subseteq last'.consulted
          /\ ("extract" \in last'.consulted) <=> (conversation_state'.intent \in TaskIntents)]_vars

\* A turn fell through from awaiting confirmation and was processed as a task turn
OtherInputFallsThroughWitness ==
    /\ last.op = "process_message"
    /\ last.began.awaiting_confirmation
    /\ Trimmed(last.message) \notin YesTokens \cup NoTokens
    /\ last.consulted = {"switch", "classify", "extract"}

\* C6: after reset_session, from whatever state it was called in, the intent is
\* none, the entities are empty, gathering_info and awaiting_confirmation are
\* false, missing_fields is empty and pending_action is none.
ResetReturnsToIdle ==
    [][last'.op = "reset_session" => IdleState']_vars

\* A reset of a state that was awaiting confirmation
ResetReturnsToIdleWitness ==
    /\ last.op = "reset_session"
    /\ last.began.awaiting_confirmation
    /\ last.began.intent \in TaskIntents
    /\ IdleState

\* C7: after reset_session the session identifier is new and the history read
\* by the classifier and the merge is empty, and the entities of a task turn
\* that directly follows the reset are exactly the values extracted from that
\* turn's message.
ResetDiscardsHistory ==
    [][/\ last'.op = "reset_session"
          => /\ session_id' # session_id
             /\ session_id' \notin DOMAIN conversation_files'
             /\ get_conversation_history(HistoryLimit, TRUE)' = <<>>
       /\ (last.op = "reset_session" /\ "extract" \in last'.consulted)
          => conversation_state'.entities = last'.extracted]_vars

\* A task turn right after a reset, the session before it having gathered a value
ResetDiscardsHistoryWitness ==
    /\ last.op = "process_message"
    /\ "extract" \in last.consulted
    /\ session_id = 1
    /\ Len(SessionLog) = 1
    /\ 0 \in DOMAIN conversation_files
    /\ \E i \in 1..Len(conversation_files[0]) :
         /\ conversation_files[0][i].intent = conversation_state.intent
         /\ DOMAIN conversation_files[0][i].entities \ DOMAIN conversation_state.entities # {}

\* C8: when the extractor returns no value for a field on a turn classified as
\* a task intent, the entities after the turn hold for that field the value of
\* the most recent earlier turn of the session that had the field for that
\* intent, however many turns lie in between.
FieldRetention ==
    [][(turns' = turns + 1 /\ "extract" \in last'.consulted)
       => LET intent == conversation_state'.intent
              had(i, F) == /\ SessionLog[i].intent = intent
                           /\ F \in DOMAIN SessionLog[i].entities
          IN  \A F \in SchemaOf(intent) \ DOMAIN last'.extracted :
                \A i \in 1..Len(SessionLog) :
                  (had(i, F) /\ \A j \in (i + 1)..Len(SessionLog) : ~had(j, F))
                  => /\ F \in DOMAIN conversation_state'.entities
                     /\ conversation_state'.entities[F] = SessionLog[i].entities[F]]_vars

\* C9: in every reachable state the mode is idle exactly if the intent is none.
IdleIffNoIntent ==
    (~conversation_state.gathering_info /\ ~conversation_state.awaiting_confirmation)
        <=> (conversation_state.intent = None)

\* C9, amended: an intent of none implies the idle mode, and in the idle mode
\* the intent is none or chitchat.
IdleIntentNoneOrChitchat ==
    /\ conversation_state.intent = None
       => (~conversation_state.gathering_info /\ ~conversation_state.awaiting_confirmation)
    /\ (~conversation_state.gathering_info /\ ~conversation_state.awaiting_confirmation)
       => conversation_state.intent \in {None, "chitchat"}

\* The idle mode with the intent chitchat, after a small-talk turn
IdleIntentNoneOrChitchatWitness ==
    /\ last.op = "process_message"
    /\ conversation_state.intent = "chitchat"
    /\ ~conversation_state.gathering_info
    /\ ~conversation_state.awaiting_confirmation

\* C10: in every reachable state every key of the entities belongs to the field
\* schema of the current intent; the intents none and chitchat have no keys.
EntitiesWithinSchema ==
    DOMAIN conversation_state.entities \subseteq SchemaOf(conversation_state.intent)

\* C10, amended: under a task intent every key of the entities belongs to that
\* intent's schema, under the intent none the entities are empty, and under
\* chitchat the entities are those of the task the small talk interrupted: all
\* keys belong to one task schema.
EntitiesWithinTaskSchema ==
    /\ conversation_state.intent \in TaskIntents
       => DOMAIN conversation_state.entities \subseteq SchemaOf(conversation_state.intent)
    /\ conversation_state.intent = None => conversation_state.entities = EmptyDict
    /\ conversation_state.intent = "chitchat"
       => \E task \in TaskIntents : DOMAIN conversation_state.entities \subseteq SchemaOf(task)

\* A task turn with entities, in a session that logged entities of the other intent
EntitiesWithinTaskSchemaWitness ==
    /\ last.op = "process_message"
    /\ "extract" \in last.consulted
    /\ conversation_state.entities # EmptyDict
    /\ \E i \in 1..Len(SessionLog) :
         /\ SessionLog[i].intent \in TaskIntents \ {conversation_state.intent}
         /\ SessionLog[i].entities # EmptyDict

\* The step is a turn of process_message
Turn ==
    /\ turns' = turns + 1
    /\ last'.op = "process_message"

\* C11: when a turn begins in gathering or awaiting confirmation with a task
\* intent and the switch detector signals true, the state is reset, the same
\* message is classified in the same turn, and at the end of the turn the
\* entities hold no value of the abandoned task: they are exactly the values
\* extracted from this message for the newly classified intent.
SwitchDiscardsFields ==
    [][(/\ Turn
        /\ conversation_state.intent \in TaskIntents
        /\ conversation_state.gathering_info \/ conversation_state.awaiting_confirmation
        /\ last'.switched)
       => /\ {"switch", "classify"} \subseteq last'.consulted
          /\ conversation_state'.entities = last'.extracted
          /\ conversation_state'.intent \in TaskIntents
             \/ (conversation_state' = [FreshState EXCEPT !.intent = "chitchat"])]_vars

\* The keywords of the switch rule as the specification lists them
MeetingWords == {<<"b","o","o","k">>, <<"s","c","h","e","d","u","l","e">>, <<"m","e","e","t","i","n","g">>, <<"a","p","p","o","i","n","t","m","e","n","t">>, <<"c","a","l","l">>}

EmailWords == {<<"s","e","n","d">>, <<"e","m","a","i","l">>, <<"m","a","i","l">>, <<"m","e","s","s","a","g","e">>}

\* C12: detect_intent_change returns false when there is no current intent;
\* true when the current intent is send_email and the text contains a meeting
\* keyword, or the current intent is schedule_meeting and the text contains an
\* e-mail keyword; otherwise true only if the backend answered yes, and false
\* when the backend is absent or its request failed.
DetectIntentChangeContract ==
    (call.fn = "detect_intent_change" /\ call.done) =>
        LET text == lower(call.user_input)
            keyword == \/ /\ call.current_intent = "send_email"
                          /\ \E w \in MeetingWords : Contains(text, w)
                       \/ /\ call.current_intent = "schedule_meeting"
                          /\ \E w \in EmailWords : Contains(text, w)
            answered_yes == /\ api_key
                            /\ call.reply.ok
                            /\ Contains(lower(call.reply.text), <<"y","e","s">>)
        IN  /\ call.current_intent = None => call.result = FALSE
            /\ (call.current_intent # None /\ keyword) => call.result = TRUE
            /\ (call.current_intent # None /\ ~keyword) => (call.result = answered_yes)

\* A call without keyword match whose backend request failed, answered false
DetectIntentChangeContractWitness ==
    /\ call.fn = "detect_intent_change"
    /\ call.done
    /\ api_key
    /\ ~call.reply.ok
    /\ call.current_intent = "schedule_meeting"
    /\ call.user_input = <<"n","o","t"," ","y","e","s">>
    /\ call.result = FALSE

\* The order in which the specification asks for the fields of a meeting
SlotOrder == <<"title", "date", "time", "participants">>

\* The first k fields of a meeting are known, the latest of them supplied in
\* answer to its question, and the assistant has just asked for the next one
OnTrack(k) ==
    /\ conversation_state.intent = "schedule_meeting"
    /\ conversation_state.gathering_info
    /\ ~conversation_state.awaiting_confirmation
    /\ DOMAIN conversation_state.entities = {SlotOrder[i] : i \in 1..k}
    /\ last.response = Response("ask", <<SlotOrder[k + 1]>>)
    /\ k > 0 => /\ last.began.gathering_info
                /\ DOMAIN last.extracted = {SlotOrder[k]}

\* All four fields are known and the assistant has just asked to confirm them
Confirming ==
    /\ conversation_state.intent = "schedule_meeting"
    /\ conversation_state.awaiting_confirmation
    /\ ~conversation_state.gathering_info
    /\ DOMAIN conversation_state.entities = {SlotOrder[i] : i \in 1..4}
    /\ last.response =
          Response("confirm_meeting_with",
                   <<conversation_state.entities["title"], conversation_state.entities["date"],
                     conversation_state.entities["time"],
                     conversation_state.entities["participants"]>>)

\* The three kinds of step of the slot-filling scenario
SlotFillingSteps ==
    /\ (IdleState /\ Turn /\ conversation_state'.intent = "schedule_meeting"
         /\ conversation_state'.entities = EmptyDict)
       => OnTrack(0)'
    /\ \A k \in 0..3 :
         (/\ OnTrack(k)
          /\ Turn
          /\ conversation_state'.intent = "schedule_meeting"
          /\ ~last'.switched
          /\ DOMAIN last'.extracted = {SlotOrder[k + 1]})
         => IF k < 3 THEN OnTrack(k + 1)' ELSE Confirming'
    /\ (Confirming /\ Turn /\ Trimmed(last'.message) \in YesTokens)
       => /\ last'.executed.called
          /\ last'.response.kind = "meeting_booked"
          /\ IdleState'

\* C13: from idle, a turn classified as schedule_meeting with no fields leads
\* to gathering and the question for the title; each following turn that is
\* classified as schedule_meeting, triggers no switch and supplies the field
\* just asked for leads to the question for the next field in the order title,
\* date, time, participants, and after the last one to awaiting confirmation
\* with a confirmation built from the four values; a following "yes" executes
\* the meeting and returns the state to idle.
SlotFillingProgress == [][SlotFillingSteps]_vars

\* C13 on a disk whose operations all succeed
SlotFillingProgressOnWorkingDisk == [][~env.faults => SlotFillingSteps]_vars

\* The scenario of C13 carried through: the meeting of four supplied fields
\* was booked
SlotFillingProgressOnWorkingDiskWitness ==
    /\ ~env.faults
    /\ turns = 6
    /\ last.executed.called
    /\ DOMAIN last.executed.entities = {SlotOrder[i] : i \in 1..4}
    /\ last.response.kind = "meeting_booked"
    /\ Len(SessionLog) = 6
    /\ \A k \in 0..3 : DOMAIN SessionLog[k + 1].entities = {SlotOrder[i] : i \in 1..k}

\* C14: execute_action never fails the turn: whichever storage write fails
\* during the execution (the action log or the outbox file), the affirmative
\* turn raises nothing, returns the success message and ends in the idle state.
ExecutionNeverFailsTurn ==
    [][(Turn /\ last'.executed.called)
       => /\ ~last'.raised
          /\ last'.response.kind \in {"meeting_booked", "email_sent", "action_completed"}
          /\ IdleState']_vars

\* C15: when the read or the write of the conversation file fails on a task
\* turn and the error is swallowed, the fields known at the end of that turn
\* are still in the entities after the next turn of the same intent in which
\* the extractor returns nothing new.
BadTurnKeepsFields ==
    [][(/\ last.op = "process_message"
        /\ "extract" \in last.consulted
        /\ last.failed \cap {"read", "write"} # {}
        /\ Turn
        /\ "extract" \in last'.consulted
        /\ conversation_state'.intent = conversation_state.intent
        /\ last'.extracted = EmptyDict
        /\ last'.failed = {})
       => \A k \in DOMAIN conversation_state.entities :
            /\ k \in DOMAIN conversation_state'.entities
            /\ conversation_state'.entities[k] = conversation_state.entities[k]]_vars

\* The keyword heuristic applied to the user's input alone
KeywordIntent(user_input) ==
    LET text == lower(user_input)
    IN  IF ContainsAny(text, FallbackMeetingWords) THEN "schedule_meeting"
        ELSE IF ContainsAny(text, FallbackEmailWords) THEN "send_email"
        ELSE "chitchat"

\* C16: without an answer of the backend (no API key, timeout or error)
\* classify_intent decides by the keywords of the user's input alone:
\* schedule_meeting if it holds a meeting keyword, otherwise send_email if it
\* holds an email keyword, otherwise chitchat.
ClassifyDegradesToKeywords ==
    (/\ call.fn = "classify_intent"
     /\ call.done
     /\ (~api_key \/ ~call.reply.ok))
    => call.result = KeywordIntent(call.user_input)

\* The result of the call is the date of a Monday 1 to 7 days after the
\* reference date, and 7 days after it when the reference date is a Monday
NextMondayReturned ==
    \E days \in 1..7 :
        /\ call.result = DateAfter(days)
        /\ (call.weekday + days) % 7 = 0
        /\ (call.weekday = 0 => days = 7)

MondayCall ==
    /\ call.fn = "_parse_date"
    /\ call.done
    /\ Contains(lower(call.user_input), <<"m","o","n","d","a","y">>)

\* C17 as stated: for every weekday of the reference date and every date
\* expression containing "monday", _parse_date returns the next Monday strictly
\* after the reference date.
ParseDateMonday == MondayCall => NextMondayReturned

\* C17: for every weekday of the reference date and every date expression that
\* contains "monday" and does not contain "next week", _parse_date returns the
\* next Monday strictly after the reference date, a full 7 days ahead when the
\* reference date is a Monday; an expression containing "next week" gives the
\* reference date + 7 days instead.
ParseDateMondayUnlessNextWeek ==
    /\ (MondayCall /\ ~Contains(lower(call.user_input), <<"n","e","x","t"," ","w","e","e","k">>))
       => NextMondayReturned
    /\ (MondayCall /\ Contains(lower(call.user_input), <<"n","e","x","t"," ","w","e","e","k">>))
       => call.result = DateAfter(7)

ParseDateMondayUnlessNextWeekWitness ==
    /\ MondayCall
    /\ ~Contains(lower(call.user_input), <<"n","e","x","t"," ","w","e","e","k">>)
    /\ call.weekday = 0
    /\ call.result = DateAfter(7)

\* C18: sessions are independent: an operation submitted by one client leaves
\* the dialogue state (intent, fields, mode), the session and the turn log
\* that the previous operation of another client left behind unchanged.
SessionsIndependent ==
    [][(actor # 0 /\ actor' # actor)
       => UNCHANGED <<conversation_state, session_id, conversation_files>>]_vars

\* C19: the action log is append-only: every record once written stays in the
\* log, unchanged and at its position, after every later operation, also when
\* two executions interleave their read and write of the log.
ActionLogAppendOnly ==
    [][/\ Len(actions_file') >= Len(actions_file)
       /\ SubSeq(actions_file', 1, Len(actions_file)) = actions_file]_vars

\* C20: at the end of every turn classified as a task intent: if the recomputed
\* missing fields are not empty the mode is gathering (gathering_info true,
\* awaiting_confirmation false) and the response is the question for the first
\* missing field; otherwise the mode is awaiting_confirmation (gathering_info
\* false), the response is the confirmation and pending_action holds that
\* intent and those fields.
TaskTurnOutcome ==
    [][(/\ Turn
        /\ "classify" \in last'.consulted
        /\ conversation_state'.intent \in TaskIntents)
       => LET st == conversation_state'
              missing_fields == get_missing_fields(st.intent, st.entities)
          IN  /\ st.missing_fields = missing_fields
              /\ IF missing_fields # <<>>
                 THEN /\ st.gathering_info
                      /\ ~st.awaiting_confirmation
                      /\ last'.response =
                             get_next_missing_field_question(st.intent, missing_fields)
                 ELSE /\ ~st.gathering_info
                      /\ st.awaiting_confirmation
                      /\ last'.response = generate_confirmation(st.intent, st.entities)
                      /\ st.pending_action =
                             [intent |-> st.intent, entities |-> st.entities]]_vars

\* The entry of the log records a value for the key under the intent: not
\* blank and not "N/A"
Recorded(log, i, intent, k) ==
    /\ log[i].intent = intent
    /\ k \in DOMAIN log[i].entities
    /\ ~IsBlank(log[i].entities[k])
    /\ log[i].entities[k] # <<"N","/","A">>

\* For every key the value of the most recent entry of the log that recorded
\* it under the intent
RecordedFields(log, intent) ==
    LET keys == {k \in SchemaOf(intent) :
                    \E i \in 1..Len(log) : Recorded(log, i, intent, k)}
        latest(k) == CHOOSE i \in 1..Len(log) :
                        /\ Recorded(log, i, intent, k)
                        /\ \A j \in (i + 1)..Len(log) : ~Recorded(log, j, intent, k)
    IN  [k \in keys |-> log[latest(k)].entities[k]]

\* C21: the field map after a turn classified as a task intent is the fields
\* recorded in the session's log under that intent overlaid with the turn's
\* extraction: a key the extractor returns holds the new value, every other
\* key holds the value of the most recent log entry of the intent that had
\* it, and nothing recorded under another intent is merged in.
MergeIsOverlay ==
    [][(Turn /\ "extract" \in last'.consulted)
       => conversation_state'.entities =
              Update(RecordedFields(SessionLog, conversation_state'.intent),
                     last'.extracted)]_vars

\* The required fields in the order of the schema
RequiredOrder(intent) ==
    IF intent = "schedule_meeting" THEN <<"title", "date", "time", "participants">>
    ELSE <<"recipient", "body">>

\* The field is absent, empty or whitespace-only in the field map
AbsentOrBlank(entities, k) ==
    \/ k \notin DOMAIN entities
    \/ \A i \in 1..Len(entities[k]) : entities[k][i] = " "

\* The required fields that are absent or blank, in schema order
ExpectedMissing(intent, entities) ==
    SelectSeq(RequiredOrder(intent), LAMBDA k : AbsentOrBlank(entities, k))

\* C22: for every task intent and every field map get_missing_fields returns
\* exactly the required fields that are absent, empty or whitespace-only, in
\* schema order, never the optional subject; get_next_missing_field_question
\* returns the question of the first entry of that list, or none when the
\* list is empty.
MissingFieldsContract ==
    /\ (call.fn = "get_missing_fields" /\ call.done)
       => /\ call.result = ExpectedMissing(call.current_intent, call.entities)
          /\ \A i \in 1..Len(call.result) : call.result[i] # "subject"
    /\ (call.fn = "get_next_missing_field_question" /\ call.done)
       => LET missing == ExpectedMissing(call.current_intent, call.entities)
          IN  call.result = IF missing = <<>> THEN NoResponse
                            ELSE Response("ask", <<missing[1]>>)

MissingFieldsContractWitness ==
    /\ call.fn = "get_missing_fields"
    /\ call.done
    /\ call.current_intent = "schedule_meeting"
    /\ DOMAIN call.entities = {"title", "date", "time"}
    /\ call.entities["title"] = <<"a">>
    /\ call.entities["date"] = <<" ">>
    /\ call.entities["time"] = <<>>
    /\ call.result = <<"date", "time", "participants">>

\* The step is a turn that was classified as chitchat
ChitchatTurn ==
    /\ Turn
    /\ "classify" \in last'.consulted
    /\ conversation_state'.intent = "chitchat"

\* C23: a turn classified as chitchat in which no switch was signalled sets
\* the intent to chitchat and leaves gathering_info, awaiting_confirmation,
\* entities, missing_fields and pending_action unchanged; a chitchat turn
\* never moves the mode from idle into gathering or awaiting_confirmation.
ChitchatKeepsMode ==
    [][/\ (ChitchatTurn /\ ~last'.switched)
          => conversation_state' = [conversation_state EXCEPT !.intent = "chitchat"]
       /\ (/\ ChitchatTurn
           /\ ~conversation_state.gathering_info
           /\ ~conversation_state.awaiting_confirmation)
          => /\ ~conversation_state'.gathering_info
             /\ ~conversation_state'.awaiting_confirmation]_vars

ChitchatKeepsModeWitness ==
    /\ last.op = "process_message"
    /\ "classify" \in last.consulted
    /\ ~last.switched
    /\ last.began.gathering_info
    /\ last.began.intent \in TaskIntents
    /\ conversation_state.intent = "chitchat"
    /\ conversation_state.gathering_info
    /\ conversation_state.entities # EmptyDict

\* The log of the session after the step
SessionLogAfter ==
    IF session_id' \in DOMAIN conversation_files'
    THEN conversation_files'[session_id'] ELSE <<>>

SomeInFlight == \E client \in DOMAIN inflight : inflight[client].busy

\* The step completes a suspended handler call
Completes == \E client \in DOMAIN inflight : inflight[client].busy /\ ~inflight'[client].busy

\* C25: turns are processed one at a time: while a process_message call is
\* in progress no other process_message or reset_session call changes the
\* dialogue state, the session or the turn log; and a turn that was in flight
\* when reset_session ran writes no intent, fields or mode flags into the
\* freshly reset state.
TurnsOneAtATime ==
    [][/\ (SomeInFlight /\ ~Completes)
          => UNCHANGED <<conversation_state, session_id, conversation_files>>
       /\ \A client \in DOMAIN inflight :
            (/\ inflight[client].busy
             /\ ~inflight'[client].busy
             /\ inflight[client].session # session_id)
            => UNCHANGED conversation_state]_vars

\* C26: whenever an action is executed, the intent and the fields passed to
\* the executor are those of the most recent confirmation prompt, stashed as
\* pending_action: no turn between the prompt and the affirmative reply
\* changes what is executed.
ExecutesWhatWasConfirmed ==
    [][(Turn /\ last'.executed.called)
       => /\ last'.executed.intent = conversation_state.pending_action.intent
          /\ last'.executed.entities = conversation_state.pending_action.entities]_vars

\* C27: after an action has been executed or cancelled, the first turn of the
\* next request starts from empty fields: its entities are the values
\* extracted from that turn's input and nothing else.
FreshRequestStartsEmpty ==
    [][(/\ last.op = "process_message"
        /\ \/ last.executed.called /\ ~last.raised
           \/ last.response = CancelResponse
        /\ Turn
        /\ "extract" \in last'.consulted)
       => conversation_state'.entities = last'.extracted]_vars

\* C28: an action confirmed once is recorded at most once: a turn that
\* appended the record of the confirmed action to the action log is never
\* directly followed, with no new confirmation prompt in between, by a turn
\* that appends a record again, also when a storage write of the execution
\* failed and the user repeats the affirmative reply.
AtMostOneRecord ==
    [][~(/\ last.op = "process_message"
         /\ last.executed.called
         /\ "action" \notin last.failed
         /\ Turn
         /\ last'.executed.called
         /\ Len(actions_file') = Len(actions_file) + 1)]_vars

====
